---- MODULE Spec2Model ----
(***************************************************************************)
(* PyCE (konstantint/pyce): the target graph of a ComputationScheme, the   *)
(* marker files of its cache directory, the resolver find_next_step_to    *)
(* and the drivers compute_target / do_step_to_target of pyce/util.py,     *)
(* run by independent operating-system processes that share the cache     *)
(* directory.  Every action performs at most one filesystem operation.    *)
(***************************************************************************)
EXTENDS Integers, Sequences, FiniteSets, TLC

VARIABLES
    files,             \* the paths that exist in the cache directory
    dependency_graph,  \* ComputationScheme.dependency_graph: target -> list of targets
    invocation_idx,    \* ComputationScheme.invocation_idx: target -> index
    pc,                \* per process: position in the code
    op,                \* per process: entry point called ("stepto", "compute", "find")
    final,             \* per process: final_target_str of do_step_to_target / find_next_step_to
    cur,               \* per process: target_str of compute_target
    stack,             \* per process: call stack of find_next_step_to
    ret,               \* per process: value returned by the outermost find_next_step_to
    result,            \* per process: value returned by the entry point
    raised,            \* per process: an exception is propagating out of the entry point
    invoked,           \* per process: the Runner's compute_target was called in this call
    obs,               \* what is recorded of the observed process's call: the files
                       \* when it was made, the Runner's outcome, whether the Runner wrote,
                       \* what the call before it returned when it was the same call;
                       \* of the observed driver also the files when it started and
                       \* how often the Runner was invoked for each target
    crashes,           \* number of processes killed so far
    killed,            \* targets whose builder was killed while the Runner was executing
    all_invocations,   \* ComputationScheme.all_invocations: list of (data_object, computation)
    main_target,       \* ComputationScheme.main_target
    decl,              \* what is recorded of the last add_invocation call
    out                \* what save_makefile printed, per stream, for the scheme as
                       \* it is now (nothing once the scheme has changed)

schemeVars == <<dependency_graph, invocation_idx, all_invocations, main_target>>
exportVars == <<decl, out>>
procVars == <<pc, op, final, cur, stack, ret, result, raised, invoked>>
vars == <<files, dependency_graph, invocation_idx, pc, op, final, cur, stack, ret,
          result, raised, invoked, obs, crashes, killed, all_invocations,
          main_target, decl, out>>

----------------------------------------------------------------------------
(* Bounds of the model *)

MaxDepth == 4       \* deepest recursion of find_next_step_to that is followed
MaxCrashes == 1     \* processes that may be killed in one behaviour
MaxDecl == 2        \* declarations that a scheme accepts in one behaviour

Procs == {"p1", "p2"}     \* the concurrent driver processes
SoloProcs == {"p0"}       \* the observed process, which runs alone
DriverProcs == {"d0"}     \* the observed driver, which repeats "stepto" alone
AllProcs == Procs \cup SoloProcs \cup DriverProcs

----------------------------------------------------------------------------
(* Target identifiers: strings, modelled as sequences of characters *)

A == <<"a">>
B == <<"b">>
C == <<"c", "[", "0", "]">>    \* str(DataObjectDescriptor("c", 0))
U == <<"u">>                   \* an identifier that is never declared
Ids == {A, B, C, U}

None == <<>>

\* The scheme of a chain A <- B <- C, declared in this order.
ChainGraph == (A :> <<>>) @@ (B :> <<A>>) @@ (C :> <<B>>)
ChainIdx == (A :> 0) @@ (B :> 1) @@ (C :> 2)

\* The scheme of a single dependency A <- B, and the identifiers used with it.
PairGraph == (A :> <<>>) @@ (B :> <<A>>)
PairIdx == (A :> 0) @@ (B :> 1)
PairIds == {A, B, U}

----------------------------------------------------------------------------
(* Result codes *)

STEP_RUN_OK == 0
STEP_RUN_FAILED == 1
STEP_RUN_FAILED_WITH_EXCEPTION == 2
TARGET_NOT_FOUND == 3
TARGET_LOCKED == 4
TARGET_READY == 5
NO_STEPS_AVAILABLE == 6
\* the local variable result before it is assigned
NO_RESULT == 0 - 1

----------------------------------------------------------------------------
(* Paths and the state store *)

\* urllib.quote on one character: letters, digits and "_.-/" are kept.
quote_char(c) ==
    CASE c = "[" -> <<"%", "5", "B">>
      [] c = "]" -> <<"%", "5", "D">>
      [] c = "%" -> <<"%", "2", "5">>
      [] OTHER -> <<c>>

RECURSIVE quote(_)
quote(s) == IF s = <<>> THEN <<>> ELSE quote_char(Head(s)) \o quote(Tail(s))

cache_dir == <<".">>
locked_suffix == <<".", "l", "o", "c", "k", "e", "d">>

target_filename(obj) == cache_dir \o <<"/">> \o quote(obj)
lock_filename(target_str) == target_filename(target_str) \o locked_suffix

exists(path) == path \in files

is_locked(target_str) == exists(lock_filename(target_str))

\* is_done without the test of the lock marker
is_done_ignoring_lock(target_str) == exists(target_filename(target_str))

is_done(target_str) == ~is_locked(target_str) /\ exists(target_filename(target_str))

target_exists(target_str) == target_str \in DOMAIN invocation_idx

ArtifactPaths == {target_filename(t) : t \in Ids}
LockPaths == {lock_filename(t) : t \in Ids}

----------------------------------------------------------------------------
(* Declarations: data objects, computations and their arguments.  A value  *)
(* that may be None is a sequence of length 0 (None) or 1.                 *)

DataObjectDescriptor(name, idx) == [name |-> name, idx |-> idx]

\* DataObjectDescriptor.__str__: name, or name[idx]
str(obj) ==
    IF obj.idx = <<>> THEN obj.name
    ELSE obj.name \o <<"[">> \o obj.idx[1] \o <<"]">>

D == <<"d">>
ObjA == DataObjectDescriptor(<<"a">>, <<>>)
ObjB == DataObjectDescriptor(<<"b">>, <<>>)
ObjC == DataObjectDescriptor(<<"c">>, << <<"0">> >>)
ObjD == DataObjectDescriptor(<<"d">>, <<>>)
\* another descriptor whose string form is that of ObjC
ObjC0 == DataObjectDescriptor(<<"c", "[", "0", "]">>, <<>>)

\* the values an argument can be
Obj(o) == [kind |-> "obj", obj |-> o]
Lit(v) == [kind |-> "lit", val |-> v]
List(xs) == [kind |-> "list", items |-> xs]
Tuple(xs) == [kind |-> "tuple", items |-> xs]
Dict(vs) == [kind |-> "dict", items |-> vs]

\* ComputationDescriptor(name, args, kwargs); kwargs is given by its values
ComputationDescriptor(name, args, kwargs) ==
    [kind |-> "comp", name |-> name, args |-> args, kwargs |-> kwargs]

\* ComputationDescriptor.__call__: name(*args, **kw)
Call(name, args, kw) == ComputationDescriptor(name, <<args>>, <<kw>>)

\* the declarations a = f(), b = f(a), c[0] = g(b) and a = f(), b = f(a)
ChainInvocations ==
    << [obj |-> ObjA, comp |-> Call(<<"f">>, <<>>, <<>>)],
       [obj |-> ObjB, comp |-> Call(<<"f">>, <<Obj(ObjA)>>, <<>>)],
       [obj |-> ObjC, comp |-> Call(<<"g">>, <<Obj(ObjB)>>, <<>>)] >>
PairInvocations == SubSeq(ChainInvocations, 1, 2)

\* extract_data_objects descending into every container
RECURSIVE extract_from_any_container(_)
extract_from_any_container(lst) ==
    IF lst = <<>> THEN <<>>
    ELSE LET RECURSIVE walk(_)
             walk(l) ==
                 IF l = <<>> THEN <<>>
                 ELSE LET el == Head(l) IN
                      (IF el.kind = "obj" THEN <<el.obj>>
                       ELSE IF el.kind \in {"list", "tuple", "dict"}
                            THEN extract_from_any_container(<<el.items>>)
                       ELSE <<>>) \o walk(Tail(l))
         IN  walk(lst[1])

\* ComputationDescriptor.extract_data_objects (lines 162-172)
RECURSIVE extract_data_objects(_)
extract_data_objects(lst) ==
    IF lst = <<>> THEN <<>>
    ELSE LET RECURSIVE walk(_)
             walk(l) ==
                 IF l = <<>> THEN <<>>
                 ELSE LET el == Head(l) IN
                      (IF el.kind = "obj" THEN <<el.obj>>
                       ELSE IF el.kind \in {"list", "tuple"}
                            THEN extract_data_objects(<<el.items>>)
                       ELSE <<>>) \o walk(Tail(l))
         IN  walk(lst[1])

\* ComputationDescriptor.dependencies (lines 154-159)
dependencies(computation) ==
    extract_data_objects(computation.args)
        \o (IF computation.kwargs /= <<>>
            THEN extract_data_objects(computation.kwargs) ELSE <<>>)

\* map(str, ...)
map_str(objs) == [i \in 1..Len(objs) |-> str(objs[i])]

\* dict.get(key, None)
get(d, key) == IF key \in DOMAIN d THEN <<d[key]>> ELSE <<>>

\* the test of line 45 made on the truth value of the record
is_not_None_truthy(r) == r /= <<>> /\ r[1] /= <<>>

\* line 45: ... is not None
is_not_None(r) == r /= <<>>

\* lines 48-49: a producer that is not a ComputationDescriptor becomes copy(producer)
wrap(computation) ==
    IF computation.kind = "comp" THEN computation
    ELSE ComputationDescriptor(<<"c", "o", "p", "y">>, << <<computation>> >>, <<>>)

NoDecl == [called |-> FALSE, raised |-> FALSE, target |-> None, computation |-> Lit(<<>>),
           before |-> <<>>]
NoOut == [called |-> FALSE, given |-> "stdout", stdout |-> <<>>, file |-> <<>>]

\* ComputationScheme.add_invocation (lines 43-55)
add_invocation(data_object, computation) ==
    LET target == str(data_object)
        comp == wrap(computation)
        deps == map_str(dependencies(comp))
        call == [called |-> TRUE, raised |-> FALSE, target |-> target,
                 computation |-> computation,
                 before |-> <<all_invocations, invocation_idx, dependency_graph>>]
    IN  /\ IF is_not_None(get(dependency_graph, target))
           THEN /\ decl' = [call EXCEPT !.raised = TRUE]
                /\ UNCHANGED <<all_invocations, dependency_graph, invocation_idx, out>>
           ELSE /\ Len(all_invocations) < MaxDecl
                /\ decl' = call
                /\ out' = NoOut
                /\ all_invocations' =
                       Append(all_invocations, [obj |-> data_object, comp |-> comp])
                /\ dependency_graph' = (target :> deps) @@ dependency_graph
                /\ invocation_idx' = (target :> Len(all_invocations)) @@ invocation_idx
        /\ UNCHANGED <<files, main_target, procVars, obs, crashes, killed>>

\* ComputationScheme.set_main_target (lines 57-58)
set_main_target(data_object) ==
    /\ main_target' = <<data_object>>
    /\ out' = NoOut
    /\ UNCHANGED <<files, dependency_graph, invocation_idx, all_invocations, decl,
                   procVars, obs, crashes, killed>>

\* " ".join(...)
RECURSIVE join(_)
join(strs) ==
    IF strs = <<>> THEN <<>>
    ELSE IF Len(strs) = 1 THEN strs[1]
    ELSE strs[1] \o <<" ">> \o join(Tail(strs))

\* .replace('"', '\\"').replace('$', '\\$')
RECURSIVE escape(_)
escape(s) ==
    IF s = <<>> THEN <<>>
    ELSE (IF Head(s) \in {"\"", "$"} THEN <<"\\", Head(s)>> ELSE <<Head(s)>>)
             \o escape(Tail(s))

\* line 98: the goal rule
goal_rule(obj) == target_filename(str(obj)) \o <<":">>

\* line 100: the rule of one target
target_rule(lhs, rhs) ==
    target_filename(str(lhs)) \o <<":", " ">>
        \o join([i \in 1..Len(dependencies(rhs)) |->
                     target_filename(str(dependencies(rhs)[i]))])

\* line 101: the recipe of one target
recipe(compute_command, lhs) ==
    <<"\t">> \o compute_command \o <<" ", "\"">> \o escape(str(lhs)) \o <<"\"">>

\* lines 99-101: the lines printed for all_invocations
RECURSIVE rules(_, _)
rules(compute_command, invs) ==
    IF invs = <<>> THEN <<>>
    ELSE <<target_rule(invs[1].obj, invs[1].comp), recipe(compute_command, invs[1].obj)>>
             \o rules(compute_command, Tail(invs))

compute_command == <<"m">>

\* ComputationScheme.save_makefile (lines 92-101); given tells whether ostream
\* is sys.stdout or another stream.  The goal rule is printed to ostream, the
\* rules and recipes by plain print statements, that is to sys.stdout.
save_makefile(cmd, given) ==
    LET goal == IF main_target /= <<>> THEN <<goal_rule(main_target[1])>> ELSE <<>>
    IN  /\ out' = [called |-> TRUE, given |-> given,
                   stdout |-> (IF given = "stdout" THEN goal ELSE <<>>)
                                  \o rules(cmd, all_invocations),
                   file |-> IF given = "file" THEN goal ELSE <<>>]
        /\ UNCHANGED <<files, schemeVars, decl, procVars, obs, crashes, killed>>

----------------------------------------------------------------------------
(* The resolver: ComputationScheme.find_next_step_to as a stack machine.   *)
(* A frame is one activation: its target_str t, the index i of the         *)
(* dependency k the loop is at, the flag all_done, and the filesystem read *)
(* it performs next: "entry" (line 67), "locked" (line 78), and the two    *)
(* reads of is_done(k) on line 80, "done_locked" and "done_exists".        *)

Frame(t) == [t |-> t, i |-> 1, all_done |-> TRUE, at |-> "entry"]

Top(st) == st[Len(st)]
Pop(st) == SubSeq(st, 1, Len(st) - 1)
SetTop(st, f) == [st EXCEPT ![Len(st)] = f]

\* the loop going past a locked dependency without clearing all_done
on_locked_dep_skipping(f) == [f EXCEPT !.i = f.i + 1, !.at = "locked"]

\* the loop ending at a dependency found locked
on_locked_dep_stopping(f) ==
    [f EXCEPT !.all_done = FALSE, !.i = Len(dependency_graph[f.t]) + 1, !.at = "locked"]

\* what the loop of lines 77-85 does with a dependency found locked (lines 78-79)
on_locked_dep(f) == [f EXCEPT !.all_done = FALSE, !.i = f.i + 1, !.at = "locked"]

\* the loop going on after a recursive call without clearing all_done
on_none_keeping(f) == [f EXCEPT !.i = f.i + 1, !.at = "locked"]

\* what the loop does when the recursive call returned None (lines 84-85)
on_none(f) == [f EXCEPT !.all_done = FALSE, !.i = f.i + 1, !.at = "locked"]

\* what the loop does with a dependency found done (line 80 false)
on_done_dep(f) == [f EXCEPT !.i = f.i + 1, !.at = "locked"]

\* lines 87-90: the value returned after the loop
after_loop(f) == IF f.all_done THEN f.t ELSE None

RECURSIVE fn_loop(_), fn_return(_, _)
\* the top frame is at the head of the loop (line 77): go to the next
\* filesystem read, or return from the frame when the dependencies are exhausted
fn_loop(st) ==
    LET f == Top(st) IN
    IF f.i > Len(dependency_graph[f.t])
    THEN fn_return(st, after_loop(f))
    ELSE [stack |-> SetTop(st, [f EXCEPT !.at = "locked"]), fin |-> FALSE, ret |-> None]

\* the loop treating every value of the recursive call as None
fn_return_dropping(st, v) ==
    LET rest == Pop(st) IN
    IF rest = <<>>
    THEN [stack |-> <<>>, fin |-> TRUE, ret |-> v]
    ELSE fn_loop(SetTop(rest, on_none(Top(rest))))

\* the top frame returns v to its caller (lines 81-85), or to the entry point
fn_return(st, v) ==
    LET rest == Pop(st) IN
    IF rest = <<>>
    THEN [stack |-> <<>>, fin |-> TRUE, ret |-> v]
    ELSE IF v /= None
         THEN fn_return(rest, v)
         ELSE fn_loop(SetTop(rest, on_none(Top(rest))))

\* the recursive call refused for a target that is being resolved already
fn_call_once(st, k) ==
    IF \E i \in 1..Len(st) : st[i].t = k
    THEN fn_loop(SetTop(st, on_none(Top(st))))
    ELSE [stack |-> Append(st, Frame(k)), fin |-> FALSE, ret |-> None]

\* line 81: the recursive call on dependency k
fn_call(st, k) == [stack |-> Append(st, Frame(k)), fin |-> FALSE, ret |-> None]

\* the process takes the resolver's next configuration
Resolve(p, r) ==
    /\ stack' = [stack EXCEPT ![p] = r.stack]
    /\ ret' = [ret EXCEPT ![p] = r.ret]
    /\ pc' = [pc EXCEPT ![p] = IF r.fin THEN "fn_ret" ELSE "fn"]

\* the loop of line 77 going through the dependencies from the last to the first
CurDep_reversed(p) ==
    LET f == Top(stack[p])
    IN  dependency_graph[f.t][Len(dependency_graph[f.t]) + 1 - f.i]

\* line 77: the dependency k the loop of the top frame is at
CurDep(p) == LET f == Top(stack[p]) IN dependency_graph[f.t][f.i]

\* lines 66-73: is the target locked, is it declared
FnEntry(p) ==
    /\ pc[p] = "fn" /\ Top(stack[p]).at = "entry"
    /\ LET st == stack[p]
           t == Top(st).t
       IN  Resolve(p, IF is_locked(t) THEN fn_return(st, None)
                      ELSE IF t \notin DOMAIN dependency_graph THEN fn_return(st, None)
                      ELSE fn_loop(st))
    /\ UNCHANGED <<files, schemeVars, exportVars, op, final, cur, result, raised, invoked,
                   obs, crashes, killed>>

\* line 78: is the dependency locked
FnDepLocked(p) ==
    /\ pc[p] = "fn" /\ Top(stack[p]).at = "locked"
    /\ LET st == stack[p]
           f == Top(st)
       IN  Resolve(p, IF is_locked(CurDep(p))
                      THEN fn_loop(SetTop(st, on_locked_dep(f)))
                      ELSE [stack |-> SetTop(st, [f EXCEPT !.at = "done_locked"]),
                            fin |-> FALSE, ret |-> None])
    /\ UNCHANGED <<files, schemeVars, exportVars, op, final, cur, result, raised, invoked,
                   obs, crashes, killed>>

\* line 80, is_done(k), first read (line 110): is the dependency locked
FnDepDoneLocked(p) ==
    /\ pc[p] = "fn" /\ Top(stack[p]).at = "done_locked"
    /\ LET st == stack[p]
           f == Top(st)
       IN  IF is_locked(CurDep(p))
           THEN /\ Len(st) < MaxDepth
                /\ Resolve(p, fn_call(st, CurDep(p)))
           ELSE Resolve(p, [stack |-> SetTop(st, [f EXCEPT !.at = "done_exists"]),
                            fin |-> FALSE, ret |-> None])
    /\ UNCHANGED <<files, schemeVars, exportVars, op, final, cur, result, raised, invoked,
                   obs, crashes, killed>>

\* line 80, is_done(k), second read (line 110): does the artifact exist
FnDepDoneExists(p) ==
    /\ pc[p] = "fn" /\ Top(stack[p]).at = "done_exists"
    /\ LET st == stack[p]
           f == Top(st)
       IN  IF exists(target_filename(CurDep(p)))
           THEN Resolve(p, fn_loop(SetTop(st, on_done_dep(f))))
           ELSE /\ Len(st) < MaxDepth
                /\ Resolve(p, fn_call(st, CurDep(p)))
    /\ UNCHANGED <<files, schemeVars, exportVars, op, final, cur, result, raised, invoked,
                   obs, crashes, killed>>

----------------------------------------------------------------------------
(* Entry points.  A process slot runs one entry point at a time; when it   *)
(* has returned (or the process was killed) a new process may start.       *)

\* the record of a call made when the files are fs
NoObs(fs) == [before |-> fs, outcome |-> "none", wrote |-> FALSE, again |-> FALSE,
              prev |-> <<>>, start |-> {}, built |-> [t \in Ids |-> 0]]

Observed == SoloProcs \cup DriverProcs

\* the call that starts repeats the call that has just returned: the same
\* operation, unlock_target or remove_target, on the same target
Repeats(p, o, c) ==
    /\ o \in {"unlock", "remove"}
    /\ pc[p] = "done" /\ op[p] = o /\ cur[p] = c /\ ~raised[p]

\* the value returned by the call of find_next_step_to that has just
\* returned, when the call that starts is find_next_step_to on the same target
Previous(p, o, f) ==
    IF o = "find" /\ pc[p] = "done" /\ op[p] = "find" /\ final[p] = f
    THEN <<ret[p]>> ELSE <<>>

Callable(p) == pc[p] \in {"idle", "done", "killed"}

Enter(p, o, f, c, at, st, res) ==
    /\ Callable(p)
    /\ op' = [op EXCEPT ![p] = o]
    /\ final' = [final EXCEPT ![p] = f]
    /\ cur' = [cur EXCEPT ![p] = c]
    /\ pc' = [pc EXCEPT ![p] = at]
    /\ stack' = [stack EXCEPT ![p] = st]
    /\ ret' = [ret EXCEPT ![p] = None]
    /\ result' = [result EXCEPT ![p] = res]
    /\ raised' = [raised EXCEPT ![p] = FALSE]
    /\ invoked' = [invoked EXCEPT ![p] = FALSE]
    /\ obs' = IF p \in SoloProcs
              THEN [NoObs(files) EXCEPT !.again = Repeats(p, o, c),
                                        !.prev = Previous(p, o, f)]
              ELSE IF p \in DriverProcs
              THEN [NoObs(files) EXCEPT
                       !.start = IF pc[p] = "idle" THEN files ELSE obs.start,
                       !.built = obs.built]
              ELSE obs
    /\ UNCHANGED <<files, schemeVars, exportVars, crashes, killed>>

\* util.py lines 147-150: do_step_to_target is called; is there such a target
do_step_to_target(p, final_target_str) ==
    IF ~target_exists(final_target_str)
    THEN Enter(p, "stepto", final_target_str, None, "done", <<>>, TARGET_NOT_FOUND)
    ELSE Enter(p, "stepto", final_target_str, None, "ds_done_locked", <<>>, NO_RESULT)

\* util.py line 98: compute_target is called directly (the "compute" command)
compute_target(p, target_str) ==
    Enter(p, "compute", None, target_str, "ct_enter", <<>>, NO_RESULT)

\* computation.py line 65: find_next_step_to is called directly
find_next_step_to(p, target_str) ==
    Enter(p, "find", target_str, None, "fn", <<Frame(target_str)>>, NO_RESULT)

\* computation.py line 125: unlock_target is called directly
unlock_target(p, target_str) ==
    Enter(p, "unlock", None, target_str, "ul_check", <<>>, NO_RESULT)

\* computation.py line 121: remove_target is called directly
remove_target(p, target_str) ==
    Enter(p, "remove", None, target_str, "rm_check", <<>>, NO_RESULT)

\* the entry point returns res
Return(p, res) ==
    /\ pc' = [pc EXCEPT ![p] = "done"]
    /\ result' = [result EXCEPT ![p] = res]

\* do_step_to_target goes on to line 155, the call of find_next_step_to
StartResolver(p) ==
    /\ pc' = [pc EXCEPT ![p] = "fn"]
    /\ stack' = [stack EXCEPT ![p] = <<Frame(final[p])>>]
    /\ UNCHANGED result

\* util.py line 152, is_done(final), first read: is the final target locked
DoStepDoneLocked(p) ==
    /\ pc[p] = "ds_done_locked"
    /\ IF is_locked(final[p])
       THEN StartResolver(p)
       ELSE /\ pc' = [pc EXCEPT ![p] = "ds_done_exists"]
            /\ UNCHANGED <<stack, result>>
    /\ UNCHANGED <<files, schemeVars, exportVars, op, final, cur, ret, raised, invoked,
                   obs, crashes, killed>>

\* util.py lines 152-153, is_done(final), second read: does the artifact exist
DoStepDoneExists(p) ==
    /\ pc[p] = "ds_done_exists"
    /\ IF exists(target_filename(final[p]))
       THEN Return(p, TARGET_READY) /\ UNCHANGED stack
       ELSE StartResolver(p)
    /\ UNCHANGED <<files, schemeVars, exportVars, op, final, cur, ret, raised, invoked,
                   obs, crashes, killed>>

\* do_step_to_target reporting a missing step as a ready target
on_next_target_ready(next_target) ==
    IF next_target = None THEN [pc |-> "done", result |-> TARGET_READY]
    ELSE [pc |-> "ct_enter", result |-> NO_RESULT]

\* util.py lines 156-159: what do_step_to_target does with next_target
on_next_target(next_target) ==
    IF next_target = None THEN [pc |-> "done", result |-> NO_STEPS_AVAILABLE]
    ELSE [pc |-> "ct_enter", result |-> NO_RESULT]

\* util.py lines 156-159: no step, or compute_target(next_target)
DoStepNext(p) ==
    /\ pc[p] = "fn_ret" /\ op[p] = "stepto"
    /\ LET n == on_next_target(ret[p]) IN
         /\ pc' = [pc EXCEPT ![p] = n.pc]
         /\ result' = [result EXCEPT ![p] = n.result]
    /\ cur' = [cur EXCEPT ![p] = ret[p]]
    /\ UNCHANGED <<files, schemeVars, exportVars, op, final, stack, ret, raised, invoked,
                   obs, crashes, killed>>

\* the direct call of find_next_step_to returns ret
FindReturn(p) ==
    /\ pc[p] = "fn_ret" /\ op[p] = "find"
    /\ pc' = [pc EXCEPT ![p] = "done"]
    /\ UNCHANGED <<files, schemeVars, exportVars, op, final, cur, stack, ret, result, raised,
                   invoked, obs, crashes, killed>>

----------------------------------------------------------------------------
(* The executor: the body of compute_target (util.py lines 105-131)        *)

RunnerOutcomes == {"true", "false", "raise"}

\* line 105: target_exists
on_enter(declared) ==
    IF declared THEN [pc |-> "ct_is_locked", result |-> NO_RESULT]
    ELSE [pc |-> "done", result |-> TARGET_NOT_FOUND]

\* the test of line 107 made inside the try block, so that finally unlocks
on_is_locked_in_try(locked) ==
    IF locked THEN [pc |-> "ul_check", result |-> TARGET_LOCKED]
    ELSE [pc |-> "lk_check", result |-> NO_RESULT]

\* lines 107-108: is_locked
on_is_locked(locked) ==
    IF locked THEN [pc |-> "done", result |-> TARGET_LOCKED]
    ELSE [pc |-> "lk_check", result |-> NO_RESULT]

\* compute_target without the except clause: the Runner's exception propagates
after_runner_no_except(outcome) ==
    CASE outcome = "true" -> [result |-> STEP_RUN_OK, raised |-> FALSE, pc |-> "ul_check"]
      [] outcome = "false" -> [result |-> STEP_RUN_FAILED, raised |-> FALSE, pc |-> "rm_check"]
      [] outcome = "raise" -> [result |-> NO_RESULT, raised |-> TRUE, pc |-> "ul_check"]

\* lines 115-128: what compute_target does with the Runner's outcome
after_runner(outcome) ==
    CASE outcome = "true" -> [result |-> STEP_RUN_OK, raised |-> FALSE, pc |-> "ul_check"]
      [] outcome = "false" -> [result |-> STEP_RUN_FAILED, raised |-> FALSE, pc |-> "rm_check"]
      [] outcome = "raise" -> [result |-> STEP_RUN_FAILED_WITH_EXCEPTION, raised |-> FALSE,
                               pc |-> "rm_check"]

\* compute_target without the finally clause on the failure paths
after_remove_no_finally == "done"

\* lines 129-130: where remove_target returns to (the finally clause)
after_remove == "ul_check"

CtEnter(p) ==
    /\ pc[p] = "ct_enter"
    /\ LET n == on_enter(target_exists(cur[p])) IN
         /\ pc' = [pc EXCEPT ![p] = n.pc]
         /\ result' = [result EXCEPT ![p] = n.result]
    /\ UNCHANGED <<files, schemeVars, exportVars, op, final, cur, stack, ret, raised, invoked,
                   obs, crashes, killed>>

CtIsLocked(p) ==
    /\ pc[p] = "ct_is_locked"
    /\ LET n == on_is_locked(is_locked(cur[p])) IN
         /\ pc' = [pc EXCEPT ![p] = n.pc]
         /\ result' = [result EXCEPT ![p] = n.result]
    /\ UNCHANGED <<files, schemeVars, exportVars, op, final, cur, stack, ret, raised, invoked,
                   obs, crashes, killed>>

\* the Runner's compute_target is called (line 115)
CallRunner(p) ==
    /\ pc' = [pc EXCEPT ![p] = "run"]
    /\ invoked' = [invoked EXCEPT ![p] = TRUE]
    /\ obs' = IF p \in DriverProcs
              THEN [obs EXCEPT !.built[cur[p]] = IF @ < 2 THEN @ + 1 ELSE @]
              ELSE obs

\* line 110, lock_target, line 113: is_locked; the value lock_target returns
\* is not looked at by compute_target
LockCheck(p) ==
    /\ pc[p] = "lk_check"
    /\ IF is_locked(cur[p])
       THEN CallRunner(p)
       ELSE /\ pc' = [pc EXCEPT ![p] = "lk_write"]
            /\ UNCHANGED <<invoked, obs>>
    /\ UNCHANGED <<files, schemeVars, exportVars, op, final, cur, stack, ret, result, raised,
                   crashes, killed>>

\* lock_target, lines 116-119: the marker file is created
LockWrite(p) ==
    /\ pc[p] = "lk_write"
    /\ files' = files \cup {lock_filename(cur[p])}
    /\ CallRunner(p)
    /\ UNCHANGED <<schemeVars, exportVars, op, final, cur, stack, ret, result, raised,
                   crashes, killed>>

\* computation.py line 112: lock_target is called directly
lock_target(p, target_str) ==
    Enter(p, "lock", None, target_str, "lt_check", <<>>, NO_RESULT)

\* lock_target called directly, lines 113-114: False (0) for a locked target
LockTargetCheck(p) ==
    /\ pc[p] = "lt_check"
    /\ IF is_locked(cur[p])
       THEN Return(p, 0)
       ELSE /\ pc' = [pc EXCEPT ![p] = "lt_write"]
            /\ UNCHANGED result
    /\ UNCHANGED <<files, schemeVars, exportVars, op, final, cur, stack, ret, raised,
                   invoked, obs, crashes, killed>>

\* lock_target called directly, lines 116-119: the marker is created, True (1)
LockTargetWrite(p) ==
    /\ pc[p] = "lt_write"
    /\ files' = files \cup {lock_filename(cur[p])}
    /\ Return(p, 1)
    /\ UNCHANGED <<schemeVars, exportVars, op, final, cur, stack, ret, raised,
                   invoked, obs, crashes, killed>>

\* the Runner writes the artifact of the target it builds
RunnerWrite(p) ==
    /\ pc[p] = "run"
    /\ files' = files \cup {target_filename(cur[p])}
    /\ obs' = IF p \in Observed THEN [obs EXCEPT !.wrote = TRUE] ELSE obs
    /\ UNCHANGED <<schemeVars, exportVars, procVars, crashes, killed>>

\* the Runner returns True, returns False (or None), or raises
RunnerReturn(p, outcome) ==
    /\ pc[p] = "run"
    /\ LET n == after_runner(outcome) IN
         /\ pc' = [pc EXCEPT ![p] = n.pc]
         /\ result' = [result EXCEPT ![p] = n.result]
         /\ raised' = [raised EXCEPT ![p] = n.raised]
    /\ obs' = IF p \in Observed THEN [obs EXCEPT !.outcome = outcome] ELSE obs
    /\ UNCHANGED <<files, schemeVars, exportVars, op, final, cur, stack, ret, invoked,
                   crashes, killed>>

\* runner.py lines 18-27, ComputationRunnerInterface.compute_target: prints
\* and returns True.  A returned value is a sequence: <<>> is None.
ComputationRunnerInterface_compute_target == <<TRUE>>

\* runner.py lines 39-40, ComputationRunner.compute_target: calls the
\* interface's compute_target and has no return statement
ComputationRunner_compute_target ==
    LET called == ComputationRunnerInterface_compute_target IN <<>>

\* runner.py line 155
SYSTEM_RUNNER == ComputationRunner_compute_target

\* util.py line 115: the truth value of what the Runner returned
truth(v) == v /= <<>> /\ v[1]

outcome_of(v) == IF truth(v) THEN "true" ELSE "false"

\* the Runner is SYSTEM_RUNNER: it writes no file and returns
SystemRunnerReturn(p) == RunnerReturn(p, outcome_of(SYSTEM_RUNNER))

\* where remove_target returns to: its direct caller, or compute_target
RemoveReturn(p) == IF op[p] = "remove" THEN "done" ELSE after_remove

\* remove_target unlinking without the test of line 122
on_remove_check_blind(present) == "rm_unlink"

\* remove_target, line 122: unlink only a file that exists
on_remove_check(present) == IF present THEN "rm_unlink" ELSE "return"

\* remove_target, line 122: does the artifact exist
RemoveCheck(p) ==
    /\ pc[p] = "rm_check"
    /\ pc' = [pc EXCEPT ![p] =
                 IF on_remove_check(exists(target_filename(cur[p]))) = "rm_unlink"
                 THEN "rm_unlink" ELSE RemoveReturn(p)]
    /\ UNCHANGED <<files, schemeVars, exportVars, op, final, cur, stack, ret, result, raised,
                   invoked, obs, crashes, killed>>

\* remove_target, line 123: os.unlink, which raises when the file is gone.
\* Raised under util.py line 121 it is caught by the except clause and
\* remove_target runs again on util.py line 128; raised under line 128 it
\* leaves compute_target through the finally clause.
RemoveUnlink(p) ==
    /\ pc[p] = "rm_unlink"
    /\ IF exists(target_filename(cur[p]))
       THEN /\ files' = files \ {target_filename(cur[p])}
            /\ pc' = [pc EXCEPT ![p] = RemoveReturn(p)]
            /\ UNCHANGED <<result, raised>>
       ELSE /\ UNCHANGED files
            /\ IF op[p] = "remove"
               THEN /\ raised' = [raised EXCEPT ![p] = TRUE]
                    /\ pc' = [pc EXCEPT ![p] = "done"]
                    /\ UNCHANGED result
               ELSE IF result[p] = STEP_RUN_FAILED
               THEN /\ result' = [result EXCEPT ![p] = STEP_RUN_FAILED_WITH_EXCEPTION]
                    /\ pc' = [pc EXCEPT ![p] = "rm_check"]
                    /\ UNCHANGED raised
               ELSE /\ raised' = [raised EXCEPT ![p] = TRUE]
                    /\ pc' = [pc EXCEPT ![p] = "ul_check"]
                    /\ UNCHANGED result
    /\ UNCHANGED <<schemeVars, exportVars, op, final, cur, stack, ret, invoked, obs,
                   crashes, killed>>

\* unlock_target unlinking without the test of line 126
on_unlock_check_blind(present) == "ul_unlink"

\* unlock_target, line 126: unlink only a marker that exists
on_unlock_check(present) == IF present THEN "ul_unlink" ELSE "done"

\* unlock_target, line 126: does the marker exist
UnlockCheck(p) ==
    /\ pc[p] = "ul_check"
    /\ pc' = [pc EXCEPT ![p] = on_unlock_check(is_locked(cur[p]))]
    /\ UNCHANGED <<files, schemeVars, exportVars, op, final, cur, stack, ret, result, raised,
                   invoked, obs, crashes, killed>>

\* unlock_target, line 127: os.unlink, which raises when the marker is gone;
\* line 131 returns result
UnlockUnlink(p) ==
    /\ pc[p] = "ul_unlink"
    /\ IF is_locked(cur[p])
       THEN /\ files' = files \ {lock_filename(cur[p])}
            /\ UNCHANGED raised
       ELSE /\ UNCHANGED files
            /\ raised' = [raised EXCEPT ![p] = TRUE]
    /\ pc' = [pc EXCEPT ![p] = "done"]
    /\ UNCHANGED <<schemeVars, exportVars, op, final, cur, stack, ret, result, invoked,
                   obs, crashes, killed>>

\* the process is killed; nothing it holds is released
HoldsLock(p) ==
    /\ op[p] \in {"stepto", "compute"}
    /\ pc[p] \in {"run", "rm_check", "rm_unlink", "ul_check", "ul_unlink"}

Crash(p) ==
    /\ ~Callable(p)
    /\ crashes < MaxCrashes
    /\ crashes' = crashes + 1
    /\ killed' = IF pc[p] = "run" THEN killed \cup {cur[p]} ELSE killed
    /\ pc' = [pc EXCEPT ![p] = "killed"]
    /\ stack' = [stack EXCEPT ![p] = <<>>]
    /\ UNCHANGED <<files, schemeVars, exportVars, op, final, cur, ret, result, raised, invoked,
                   obs>>

----------------------------------------------------------------------------
(* Dry-run inspection: view_compute_target and view_step_to_target         *)
(* (util.py lines 133-180) with the Runner's describe_compute_target.  A   *)
(* named argument is its value together with its key.                      *)

Named(key, v) == [key |-> key] @@ v

R == <<"_", "r">>
ObjR == DataObjectDescriptor(<<"_", "r">>, <<>>)

RunnerNames == {"SYSTEM_RUNNER", "PYTHON_RUNNER"}

\* PythonFunctionRunner.replace_targets_with_filenames (runner.py lines
\* 121-138): the value returned
RECURSIVE replace_targets_with_filenames(_)
replace_targets_with_filenames(v) ==
    CASE v.kind = "obj" -> Lit(target_filename(str(v.obj)))
      [] v.kind \in {"list", "tuple"} ->
             List([i \in 1..Len(v.items) |-> replace_targets_with_filenames(v.items[i])])
      [] v.kind = "dict" ->
             Dict([i \in 1..Len(v.items) |-> replace_targets_with_filenames(v.items[i])])
      [] OTHER -> v

\* what the object v is once replace_targets_with_filenames(v) has returned:
\* a list or tuple is copied by map (line 132), its elements being visited; a
\* dict has its values overwritten (lines 134-135)
RECURSIVE after_replace(_)
after_replace(v) ==
    CASE v.kind \in {"list", "tuple"} ->
             [v EXCEPT !.items = [i \in 1..Len(v.items) |-> after_replace(v.items[i])]]
      [] v.kind = "dict" ->
             [v EXCEPT !.items =
                 [i \in 1..Len(v.items) |-> replace_targets_with_filenames(v.items[i])]]
      [] OTHER -> v

HasKey(kw, key) == \E i \in 1..Len(kw) : kw[i].key = key

\* del kwargs[key]
del(kw, key) == SelectSeq(kw, LAMBDA e : e.key /= key)

\* kwargs[key] = v
set(kw, key, v) ==
    IF HasKey(kw, key)
    THEN [i \in 1..Len(kw) |-> IF kw[i].key = key THEN Named(key, v) ELSE kw[i]]
    ELSE Append(kw, Named(key, v))

\* resolve_compute_target (runner.py lines 98-115): what the dict kwargs,
\* which is the dict computation.kwargs, holds in the end
kwargs_after_resolve(target_data_object, kw) ==
    LET have_output_param == Head(str(target_data_object)) /= "_"
        kw1 == IF HasKey(kw, "_depend") THEN del(kw, "_depend") ELSE kw
        kw2 == IF have_output_param
               THEN set(kw1, "_output", Lit(target_filename(str(target_data_object))))
               ELSE kw1
    IN  [i \in 1..Len(kw2) |-> Named(kw2[i].key, replace_targets_with_filenames(kw2[i]))]

\* PythonFunctionRunner.resolve_compute_target (runner.py lines 80-117): the
\* computation as the call leaves it.  When kwargs or args is None a fresh
\* container is used (lines 98-99).
resolve_compute_target(target_data_object, computation) ==
    [computation EXCEPT
        !.kwargs = IF @ = <<>> THEN <<>>
                   ELSE <<kwargs_after_resolve(target_data_object, @[1])>>,
        !.args = IF @ = <<>> THEN <<>>
                 ELSE <<[i \in 1..Len(@[1]) |-> after_replace(@[1][i])]>>]

\* describe_compute_target of the Runner: ComputationRunnerInterface's (runner.py
\* lines 29-33) formats a string, PythonFunctionRunner's (lines 66-77) calls
\* resolve_compute_target; all_invocations as the call leaves it
describe_compute_target(runner, target_str) ==
    LET i == invocation_idx[target_str] + 1
        inv == all_invocations[i]
    IN  IF runner = "PYTHON_RUNNER"
        THEN [all_invocations EXCEPT ![i].comp = resolve_compute_target(inv.obj, inv.comp)]
        ELSE all_invocations

\* util.py lines 133-137: view_compute_target is called; is there such a target
view_compute_target(p, target_str) ==
    IF ~target_exists(target_str)
    THEN Enter(p, "viewcompute", None, target_str, "done", <<>>, TARGET_NOT_FOUND)
    ELSE Enter(p, "viewcompute", None, target_str, "vc_describe", <<>>, NO_RESULT)

\* util.py lines 138-140: the Runner describes the computation
ViewDescribe(p, runner) ==
    /\ pc[p] = "vc_describe"
    /\ all_invocations' = describe_compute_target(runner, cur[p])
    /\ pc' = [pc EXCEPT ![p] = "vc_is_locked"]
    /\ UNCHANGED <<files, dependency_graph, invocation_idx, main_target, exportVars,
                   op, final, cur, stack, ret, result, raised, invoked, obs, crashes, killed>>

\* util.py lines 141-143: the warning for a locked target, then STEP_RUN_OK
ViewIsLocked(p) ==
    /\ pc[p] = "vc_is_locked"
    /\ Return(p, STEP_RUN_OK)
    /\ UNCHANGED <<files, schemeVars, exportVars, op, final, cur, stack, ret, raised,
                   invoked, obs, crashes, killed>>

\* util.py lines 161-165: view_step_to_target is called; is there such a target
view_step_to_target(p, final_target_str) ==
    IF ~target_exists(final_target_str)
    THEN Enter(p, "viewstepto", final_target_str, None, "done", <<>>, TARGET_NOT_FOUND)
    ELSE Enter(p, "viewstepto", final_target_str, None, "ds_done_locked", <<>>, NO_RESULT)

\* util.py lines 172-180: no step, or the Runner describes the next step
ViewStepNext(p, runner) ==
    /\ pc[p] = "fn_ret" /\ op[p] = "viewstepto"
    /\ cur' = [cur EXCEPT ![p] = ret[p]]
    /\ IF ret[p] = None
       THEN /\ Return(p, NO_STEPS_AVAILABLE)
            /\ UNCHANGED all_invocations
       ELSE /\ Return(p, STEP_RUN_OK)
            /\ all_invocations' = describe_compute_target(runner, ret[p])
    /\ UNCHANGED <<files, dependency_graph, invocation_idx, main_target, exportVars,
                   op, final, stack, ret, raised, invoked, obs, crashes, killed>>

\* the targets t depends on, directly or through at most n further targets
RECURSIVE DepsWithin(_, _)
DepsWithin(t, n) ==
    IF t \notin DOMAIN dependency_graph THEN {}
    ELSE LET direct == {dependency_graph[t][i] : i \in 1..Len(dependency_graph[t])}
         IN  IF n = 0 THEN direct
             ELSE direct \cup UNION {DepsWithin(k, n - 1) : k \in direct}

AllDeps(t) == DepsWithin(t, Cardinality(Ids))
DirectDeps(t) == DepsWithin(t, 0)

----------------------------------------------------------------------------
(* Specifications *)

InitProcs ==
    /\ pc = [p \in AllProcs |-> "idle"]
    /\ op = [p \in AllProcs |-> "none"]
    /\ final = [p \in AllProcs |-> None]
    /\ cur = [p \in AllProcs |-> None]
    /\ stack = [p \in AllProcs |-> <<>>]
    /\ ret = [p \in AllProcs |-> None]
    /\ result = [p \in AllProcs |-> NO_RESULT]
    /\ raised = [p \in AllProcs |-> FALSE]
    /\ invoked = [p \in AllProcs |-> FALSE]
    /\ obs = NoObs({})
    /\ crashes = 0
    /\ killed = {}
    /\ decl = NoDecl
    /\ out = NoOut

\* the scheme after the declarations a = ..., b = f(a), c[0] = g(b)
InitChain ==
    /\ dependency_graph = ChainGraph
    /\ invocation_idx = ChainIdx
    /\ all_invocations = ChainInvocations
    /\ main_target = <<>>

\* the scheme after the declarations a = ..., b = f(a)
InitPair ==
    /\ dependency_graph = PairGraph
    /\ invocation_idx = PairIdx
    /\ all_invocations = PairInvocations
    /\ main_target = <<>>

\* one step of the code of process p, outside the Runner's return and the
\* removal of the artifact that follows a failure
Step(p) ==
    \/ FnEntry(p) \/ FnDepLocked(p) \/ FnDepDoneLocked(p) \/ FnDepDoneExists(p)
    \/ DoStepDoneLocked(p) \/ DoStepDoneExists(p) \/ DoStepNext(p)
    \/ CtEnter(p) \/ CtIsLocked(p) \/ LockCheck(p) \/ LockWrite(p)
    \/ RunnerWrite(p)
    \/ UnlockCheck(p) \/ UnlockUnlink(p)

\* the Runner returns with any outcome; compute_target removes the artifact
RunnerEnds(p) ==
    \/ \E o \in RunnerOutcomes : RunnerReturn(p, o)
    \/ RemoveCheck(p) \/ RemoveUnlink(p)

\* Concurrent driver processes on a cache directory that holds no lock
\* marker when the first of them starts.
Init ==
    /\ files \in SUBSET {target_filename(t) : t \in DOMAIN PairGraph}
    /\ InitPair
    /\ InitProcs

Next ==
    \E p \in Procs :
        \/ Step(p)
        \/ RunnerEnds(p)
        \/ \E t \in PairIds : do_step_to_target(p, t)
        \/ \E t \in PairIds : compute_target(p, t)
        \/ Crash(p)

Spec == Init /\ [][Next]_vars

\* One process alone on a cache directory in any state: markers and
\* artifacts left by earlier runs may be present, nobody else changes them.
InitSolo ==
    /\ files \in SUBSET (ArtifactPaths \cup LockPaths)
    /\ InitChain
    /\ InitProcs

NextSolo ==
    \E p \in SoloProcs :
        \/ Step(p)
        \/ RunnerEnds(p)
        \/ \E t \in Ids : do_step_to_target(p, t)
        \/ \E t \in Ids : compute_target(p, t)
        \/ \E t \in Ids : find_next_step_to(p, t)
        \/ FindReturn(p)
        \/ \E t \in Ids : unlock_target(p, t)
        \/ \E t \in Ids : remove_target(p, t)

SpecSolo == InitSolo /\ [][NextSolo]_vars

\* Drivers that repeat do_step_to_target on one final target of the chain,
\* one process at a time, with a Runner that writes the artifact and returns
\* True.  A process may be killed at any point; the next one starts afterwards.
\* Somebody may remove by hand a marker that no running process created.
Stale(t) == is_locked(t) /\ \A p \in AllProcs : ~(HoldsLock(p) /\ cur[p] = t)

RemoveStaleMarker(t) ==
    /\ Stale(t)
    /\ files' = files \ {lock_filename(t)}
    /\ UNCHANGED <<schemeVars, exportVars, procVars, obs, crashes, killed>>

RunnerSucceeds(p) ==
    /\ exists(target_filename(cur[p]))
    /\ RunnerReturn(p, "true")

StepAgain(p) ==
    \E t \in DOMAIN dependency_graph :
        /\ final[p] \in {None, t}
        /\ do_step_to_target(p, t)

InitCrash ==
    /\ files \in SUBSET {target_filename(t) : t \in DOMAIN ChainGraph}
    /\ InitChain
    /\ InitProcs

Progress == \E p \in SoloProcs : Step(p) \/ RunnerSucceeds(p) \/ StepAgain(p)

NextCrash ==
    \/ Progress
    \/ \E p \in SoloProcs : Crash(p)
    \/ \E t \in DOMAIN ChainGraph : RemoveStaleMarker(t)

SpecCrash == InitCrash /\ [][NextCrash]_vars /\ WF_vars(Progress)

\* Concurrent drivers that repeat do_step_to_target with a Runner that writes
\* the artifact and returns True; nobody is killed.
NextDrivers ==
    \E p \in Procs :
        \/ Step(p)
        \/ RunnerSucceeds(p)
        \/ \E t \in PairIds : do_step_to_target(p, t)

SpecDrivers == Init /\ [][NextDrivers]_vars

\* The resolver called directly by one process, on every graph over three
\* identifiers in which a declared target has at most two different
\* dependencies (itself possibly among them), and on every state of the files.
GraphIds == {A, B, C}

DepLists(ids) ==
    {<<>>} \cup {<<k>> : k \in ids} \cup {<<k, l>> : k, l \in ids}

Graphs ==
    UNION {[S -> {d \in DepLists(GraphIds) : Len(d) < 2 \/ d[1] /= d[2]}] :
              S \in SUBSET GraphIds}

ObjOf(t) == CHOOSE o \in {ObjA, ObjB, ObjC} : str(o) = t

\* the declarations that give graph g, made in the order a, b, c[0]
RECURSIVE InvocationsOf(_, _)
InvocationsOf(g, order) ==
    IF order = <<>> THEN <<>>
    ELSE LET t == Head(order) IN
         (IF t \in DOMAIN g
          THEN << [obj |-> ObjOf(t),
                   comp |-> Call(<<"f">>, [i \in 1..Len(g[t]) |-> Obj(ObjOf(g[t][i]))],
                                 <<>>)] >>
          ELSE <<>>) \o InvocationsOf(g, Tail(order))

\* the scheme whose declarations give graph g, and any files of the targets ids
InitScheme(gs, ids) ==
    /\ files \in SUBSET ({target_filename(t) : t \in ids}
                            \cup {lock_filename(t) : t \in ids})
    /\ dependency_graph \in gs
    /\ all_invocations = InvocationsOf(dependency_graph, <<A, B, C>>)
    /\ invocation_idx =
           [t \in DOMAIN dependency_graph |->
               (CHOOSE i \in 1..Len(all_invocations) :
                    str(all_invocations[i].obj) = t) - 1]
    /\ main_target = <<>>
    /\ InitProcs

ResolverStep ==
    \E p \in SoloProcs :
        \/ FnEntry(p) \/ FnDepLocked(p) \/ FnDepDoneLocked(p) \/ FnDepDoneExists(p)
        \/ FindReturn(p)

NextGraphs ==
    \/ ResolverStep
    \/ \E p \in SoloProcs, t \in GraphIds : find_next_step_to(p, t)

InitGraphs == InitScheme(Graphs, GraphIds)

SpecGraphs == InitGraphs /\ [][NextGraphs]_vars

\* The resolver called directly on every graph over two identifiers, a
\* dependency possibly listed twice, cycles included; a call that has been
\* made goes on as long as it can.
CycleIds == {A, B}

CycleGraphs == UNION {[S -> DepLists(CycleIds)] : S \in SUBSET CycleIds}

InitCycles == InitScheme(CycleGraphs, CycleIds)

NextCycles ==
    \/ ResolverStep
    \/ \E p \in SoloProcs, t \in CycleIds : find_next_step_to(p, t)

SpecCycles == InitCycles /\ [][NextCycles]_vars /\ WF_vars(ResolverStep)

\* One driver that repeats do_step_to_target on one final target, with a
\* Runner that writes the artifact and returns True, on every acyclic graph
\* over three declared targets; no marker exists and nobody is killed.
InitDrive ==
    /\ files \in SUBSET {target_filename(t) : t \in GraphIds}
    /\ dependency_graph \in {g \in Graphs : DOMAIN g = GraphIds}
    /\ \A t \in GraphIds : t \notin AllDeps(t)
    /\ all_invocations = InvocationsOf(dependency_graph, <<A, B, C>>)
    /\ invocation_idx =
           [t \in DOMAIN dependency_graph |->
               (CHOOSE i \in 1..Len(all_invocations) :
                    str(all_invocations[i].obj) = t) - 1]
    /\ main_target = <<>>
    /\ InitProcs

NextDrive == \E p \in DriverProcs : Step(p) \/ RunnerSucceeds(p) \/ StepAgain(p)

SpecDrive == InitDrive /\ [][NextDrive]_vars /\ WF_vars(NextDrive)

\* One process alone that runs "compute" and "stepto" with the default
\* Runner of pycex_experiment, SYSTEM_RUNNER, on a cache directory in any state.
NextSystem ==
    \E p \in SoloProcs :
        \/ \E t \in Ids : compute_target(p, t)
        \/ \E t \in Ids : do_step_to_target(p, t)
        \/ FnEntry(p) \/ FnDepLocked(p) \/ FnDepDoneLocked(p) \/ FnDepDoneExists(p)
        \/ DoStepDoneLocked(p) \/ DoStepDoneExists(p) \/ DoStepNext(p)
        \/ CtEnter(p) \/ CtIsLocked(p) \/ LockCheck(p) \/ LockWrite(p)
        \/ SystemRunnerReturn(p)
        \/ RemoveCheck(p) \/ RemoveUnlink(p)
        \/ UnlockCheck(p) \/ UnlockUnlink(p)

SpecSystem == InitSolo /\ [][NextSystem]_vars

\* One process alone that runs "viewcompute" and "viewstepto", with either
\* Runner, on the scheme declared by
\*     a = f();  b = g(a, [a], k = a);  _r = h(b, {x: a}, _depend = a)
\* and on a cache directory in any state.
ViewIds == {A, B, R}

ViewInvocations ==
    << [obj |-> ObjA, comp |-> Call(<<"f">>, <<>>, <<>>)],
       [obj |-> ObjB,
        comp |-> Call(<<"g">>, <<Obj(ObjA), List(<<Obj(ObjA)>>)>>,
                      <<Named("k", Obj(ObjA))>>)],
       [obj |-> ObjR,
        comp |-> Call(<<"h">>, <<Obj(ObjB), Dict(<<Obj(ObjA)>>)>>,
                      <<Named("_depend", Obj(ObjA))>>)] >>

\* the scheme that add_invocation builds from a list of declarations
InitDeclared(invs) ==
    /\ all_invocations = invs
    /\ dependency_graph =
           [t \in {str(invs[i].obj) : i \in 1..Len(invs)} |->
               LET i == CHOOSE j \in 1..Len(invs) : str(invs[j].obj) = t
               IN  map_str(dependencies(invs[i].comp))]
    /\ invocation_idx =
           [t \in {str(invs[i].obj) : i \in 1..Len(invs)} |->
               (CHOOSE j \in 1..Len(invs) : str(invs[j].obj) = t) - 1]
    /\ main_target = <<>>

InitView ==
    /\ files \in SUBSET ({target_filename(t) : t \in ViewIds}
                            \cup {lock_filename(t) : t \in ViewIds})
    /\ InitDeclared(ViewInvocations)
    /\ InitProcs

NextView ==
    \E p \in SoloProcs :
        \/ \E t \in ViewIds \cup {U} : view_compute_target(p, t)
        \/ \E r \in RunnerNames : ViewDescribe(p, r)
        \/ ViewIsLocked(p)
        \/ \E t \in ViewIds \cup {U} : view_step_to_target(p, t)
        \/ DoStepDoneLocked(p) \/ DoStepDoneExists(p)
        \/ FnEntry(p) \/ FnDepLocked(p) \/ FnDepDoneLocked(p) \/ FnDepDoneExists(p)
        \/ \E r \in RunnerNames : ViewStepNext(p, r)

SpecView == InitView /\ [][NextView]_vars

\* One process alone that calls lock_target, unlock_target, remove_target and
\* compute_target, with a Runner that may write the artifact, on the scheme
\* declared by  a = f();  b = f();  setattr(saved, 'a.locked', f())
\* and on a cache directory in any state.
AL == A \o locked_suffix
ObjAL == DataObjectDescriptor(AL, <<>>)
PathIds == {A, B, AL}

PathInvocations ==
    << [obj |-> ObjA, comp |-> Call(<<"f">>, <<>>, <<>>)],
       [obj |-> ObjB, comp |-> Call(<<"f">>, <<>>, <<>>)],
       [obj |-> ObjAL, comp |-> Call(<<"f">>, <<>>, <<>>)] >>

InitPaths ==
    /\ files \in SUBSET ({target_filename(t) : t \in PathIds}
                            \cup {lock_filename(t) : t \in PathIds})
    /\ InitDeclared(PathInvocations)
    /\ InitProcs

NextPaths ==
    \E p \in SoloProcs :
        \/ \E t \in PathIds : lock_target(p, t)
        \/ LockTargetCheck(p) \/ LockTargetWrite(p)
        \/ \E t \in PathIds : unlock_target(p, t)
        \/ \E t \in PathIds : remove_target(p, t)
        \/ \E t \in PathIds : compute_target(p, t)
        \/ CtEnter(p) \/ CtIsLocked(p) \/ LockCheck(p) \/ LockWrite(p)
        \/ RunnerWrite(p)
        \/ RunnerEnds(p)
        \/ UnlockCheck(p) \/ UnlockUnlink(p)

SpecPaths == InitPaths /\ [][NextPaths]_vars

\* The declaration phase: a fresh scheme receives declarations, a main target
\* may be set, and the scheme may be exported.
Producers ==
    { Call(<<"f">>, <<Obj(ObjA), List(<<Obj(ObjB), Obj(ObjC)>>), Lit(<<"a">>)>>,
           <<Obj(ObjD)>>),
      Call(<<"f">>, <<>>, <<>>),
      Call(<<"g">>, <<Obj(ObjA), Dict(<<Obj(ObjB)>>),
                      Tuple(<<Obj(ObjC), List(<<Obj(ObjA)>>)>>)>>, <<>>),
      ComputationDescriptor(<<"h">>, <<>>, <<>>),
      Obj(ObjA) }

Declarable == {ObjA, ObjB, ObjC, ObjC0}

InitDecl ==
    /\ files = {}
    /\ dependency_graph = [t \in {} |-> <<>>]
    /\ invocation_idx = [t \in {} |-> 0]
    /\ all_invocations = <<>>
    /\ main_target = <<>>
    /\ InitProcs

NextDecl ==
    \/ \E o \in Declarable, c \in Producers : add_invocation(o, c)
    \/ \E o \in {ObjA, ObjC} : set_main_target(o)
    \/ \E g \in {"stdout", "file"} : save_makefile(compute_command, g)

SpecDecl == InitDecl /\ [][NextDecl]_vars

----------------------------------------------------------------------------
(* Claims *)

Failed == {STEP_RUN_FAILED, STEP_RUN_FAILED_WITH_EXCEPTION}

\* C1: when a compute_target call that got past the declared/locked checks
\* has returned, and nobody else touched the target meanwhile, the target has
\* no lock marker, and after a failure (the Runner returned false or raised)
\* it has no artifact either, whatever it had before the call.
C1_LockRelease ==
    \A p \in SoloProcs :
        (pc[p] = "done" /\ invoked[p]) =>
            /\ ~is_locked(cur[p])
            /\ (result[p] \in Failed => ~exists(target_filename(cur[p])))

\* a failed build of a target that had an artifact before the call
C1_Witness ==
    \E p \in SoloProcs :
        /\ pc[p] = "done" /\ invoked[p] /\ result[p] \in Failed
        /\ target_filename(cur[p]) \in obs.before
        /\ ~is_locked(cur[p]) /\ ~exists(target_filename(cur[p]))

\* C4: for every target and every state of the files exactly one of locked,
\* done and pending (neither) holds; a locked target is not done even when its
\* artifact is present.
Status(t) ==
    {s \in {"locked", "done", "pending"} :
        \/ s = "locked" /\ is_locked(t)
        \/ s = "done" /\ is_done(t)
        \/ s = "pending" /\ ~is_locked(t) /\ ~is_done(t)}

C4_StatusExclusive ==
    \A t \in Ids :
        /\ Cardinality(Status(t)) = 1
        /\ (is_locked(t) => ~is_done(t))

\* the driver has treated as not done a final target that is locked and has
\* an artifact
C4_Witness ==
    \E p \in SoloProcs :
        /\ pc[p] = "done" /\ op[p] = "stepto" /\ result[p] = NO_STEPS_AVAILABLE
        /\ is_locked(final[p]) /\ exists(target_filename(final[p]))
        /\ Status(final[p]) = {"locked"}

\* C5: compute_target on an undeclared target returns TARGET_NOT_FOUND and on
\* a declared target whose lock marker exists returns TARGET_LOCKED; in both
\* cases the Runner is not invoked and every file is as it was before the call.
C5_RejectedTouchesNothing ==
    \A p \in SoloProcs :
        (pc[p] = "done" /\ op[p] = "compute") =>
            /\ ~target_exists(cur[p]) =>
                  (result[p] = TARGET_NOT_FOUND /\ ~invoked[p] /\ files = obs.before)
            /\ (target_exists(cur[p]) /\ lock_filename(cur[p]) \in obs.before) =>
                  (result[p] = TARGET_LOCKED /\ ~invoked[p] /\ files = obs.before)
            /\ result[p] \in {TARGET_NOT_FOUND, TARGET_LOCKED} =>
                  (~invoked[p] /\ files = obs.before)

\* a build rejected because of a lock marker, which is still there
C5_Witness ==
    \E p \in SoloProcs :
        /\ pc[p] = "done" /\ op[p] = "compute" /\ result[p] = TARGET_LOCKED
        /\ is_locked(cur[p]) /\ exists(target_filename(cur[p]))

\* C6: in compute_target on a declared, unlocked target the Runner's outcome
\* becomes a result: true gives STEP_RUN_OK and the artifact the Runner wrote
\* stays (the target is done), false gives STEP_RUN_FAILED, an exception gives
\* STEP_RUN_FAILED_WITH_EXCEPTION; no exception leaves compute_target or
\* do_step_to_target.
C6_RunnerOutcomes ==
    \A p \in SoloProcs :
        (pc[p] = "done" /\ invoked[p]) =>
            /\ ~raised[p]
            /\ obs.outcome = "true" =>
                  /\ result[p] = STEP_RUN_OK
                  /\ obs.wrote => is_done(cur[p])
                  /\ files \ {target_filename(cur[p])} = obs.before \ {target_filename(cur[p])}
                  /\ target_filename(cur[p]) \in obs.before => is_done(cur[p])
            /\ obs.outcome = "false" => result[p] = STEP_RUN_FAILED
            /\ obs.outcome = "raise" => result[p] = STEP_RUN_FAILED_WITH_EXCEPTION

\* do_step_to_target has returned the result of a Runner that raised
C6_Witness ==
    \E p \in SoloProcs :
        /\ pc[p] = "done" /\ op[p] = "stepto" /\ invoked[p]
        /\ obs.outcome = "raise" /\ result[p] = STEP_RUN_FAILED_WITH_EXCEPTION
        /\ ~raised[p]

\* C2: at no time are two driver processes both executing the Runner's
\* compute_target for the same target.
C2_MutualExclusion ==
    \A p, q \in Procs :
        (p /= q /\ pc[p] = "run" /\ pc[q] = "run") => cur[p] /= cur[q]

\* C3: while a process is inside the Runner's compute_target for a target,
\* the lock marker of the target exists, so that the target is not done.
C3_LockedWhileComputing ==
    \A p \in Procs :
        pc[p] = "run" => (is_locked(cur[p]) /\ ~is_done(cur[p]))

\* The dependency chain A <- B <- C in dependency order
ChainOrder == <<A, B, C>>
ChainPos(t) == CHOOSE i \in 1..Len(ChainOrder) : ChainOrder[i] = t
Pending(t) == ~is_locked(t) /\ ~exists(target_filename(t))

\* a direct call find_next_step_to(T) on the chain has returned and no
\* target of the chain is locked
ChainCall(p) ==
    /\ pc[p] = "done" /\ op[p] = "find"
    /\ dependency_graph = ChainGraph
    /\ final[p] \in DOMAIN ChainGraph
    /\ \A t \in DOMAIN ChainGraph : ~is_locked(t)

\* the first target of the chain up to T, in dependency order, that is not done
FirstNotDone(T) ==
    LET cand == {i \in 1..ChainPos(T) : ~is_done(ChainOrder[i])}
    IN  ChainOrder[CHOOSE i \in cand : \A j \in cand : i <= j]

\* the target at which a walk from T down the chain stops: the first one
\* whose dependency is done, or that has no dependency
RECURSIVE WalkStop(_)
WalkStop(T) ==
    IF ChainGraph[T] = <<>> \/ is_done(ChainGraph[T][1]) THEN T
    ELSE WalkStop(ChainGraph[T][1])

\* the done targets of the chain up to T are the ones before some position
DonePrefix(T) ==
    \E k \in 0..ChainPos(T) :
        \A i \in 1..ChainPos(T) : is_done(ChainOrder[i]) <=> i <= k

\* C7 as stated: on the chain A <- B <- C with no locked target,
\* find_next_step_to returns the first target in dependency order that is
\* not done.
C7_FirstNotDone ==
    \A p \in SoloProcs :
        (ChainCall(p) /\ \E i \in 1..ChainPos(final[p]) : ~is_done(ChainOrder[i])) =>
            ret[p] = FirstNotDone(final[p])

\* C7 as amended: find_next_step_to(C) is A when none of the three is done and
\* B when A is done and B is not; in general the resolver walks from T down
\* the chain past the dependencies that are not done and returns the target
\* where it stops, which is the first not-done target when the done targets
\* are the first ones of the chain and T is not done.
C7_ChainResolver ==
    \A p \in SoloProcs :
        ChainCall(p) =>
            /\ (final[p] = C /\ \A t \in {A, B, C} : ~is_done(t)) => ret[p] = A
            /\ (final[p] = C /\ is_done(A) /\ ~is_done(B)) => ret[p] = B
            /\ ret[p] = WalkStop(final[p])
            /\ (DonePrefix(final[p]) /\ ~is_done(final[p])) => ret[p] = FirstNotDone(final[p])

\* the resolver has returned C although A is not done, because B is done
C7_Witness ==
    \E p \in SoloProcs :
        /\ ChainCall(p) /\ final[p] = C
        /\ ~is_done(A) /\ is_done(B) /\ ~is_done(C)
        /\ ret[p] = C

FindCall(p) == pc[p] = "done" /\ op[p] = "find"

\* C8 as stated: find_next_step_to(T) returns no step when T is locked, and
\* never returns a target that depends, directly or transitively, on a locked
\* target.
C8_NeverPastLock ==
    \A p \in SoloProcs :
        FindCall(p) =>
            /\ is_locked(final[p]) => ret[p] = None
            /\ ret[p] /= None => \A k \in AllDeps(ret[p]) : ~is_locked(k)

\* C8 as amended: find_next_step_to(T) returns no step when T is locked; on
\* the chain with A locked and B, C pending find_next_step_to(C) returns no
\* step; a returned target never has a direct dependency that is locked or
\* not done.
C8_LockBlocks ==
    \A p \in SoloProcs :
        FindCall(p) =>
            /\ is_locked(final[p]) => ret[p] = None
            /\ (dependency_graph = ChainGraph /\ final[p] = C /\ is_locked(A)
                  /\ Pending(B) /\ Pending(C)) => ret[p] = None
            /\ ret[p] /= None =>
                  \A k \in DirectDeps(ret[p]) : ~is_locked(k) /\ is_done(k)

\* the resolver has returned no step for C because A is locked
C8_Witness ==
    \E p \in SoloProcs :
        /\ FindCall(p) /\ final[p] = C /\ dependency_graph = ChainGraph
        /\ is_locked(A) /\ Pending(B) /\ Pending(C)
        /\ ret[p] = None

\* C9: do_step_to_target(T) returns TARGET_READY exactly when T is declared
\* and done when the call is made, NO_STEPS_AVAILABLE exactly when T is
\* declared, not done and find_next_step_to(T) yields no step, and
\* TARGET_NOT_FOUND exactly when T is undeclared; in these three cases the
\* Runner is not invoked and no file changes.
DoneBefore(t) ==
    /\ lock_filename(t) \notin obs.before
    /\ target_filename(t) \in obs.before

C9_ReadyOrBlocked ==
    \A p \in SoloProcs :
        (pc[p] = "done" /\ op[p] = "stepto") =>
            LET T == final[p] IN
            /\ result[p] = TARGET_READY <=> (target_exists(T) /\ DoneBefore(T))
            /\ result[p] = NO_STEPS_AVAILABLE <=>
                  (target_exists(T) /\ ~DoneBefore(T) /\ ret[p] = None)
            /\ result[p] = TARGET_NOT_FOUND <=> ~target_exists(T)
            /\ result[p] \in {TARGET_READY, NO_STEPS_AVAILABLE, TARGET_NOT_FOUND} =>
                  (~invoked[p] /\ files = obs.before)

\* the driver has reported a pending final target blocked by a locked dependency
C9_Witness ==
    \E p \in SoloProcs :
        /\ pc[p] = "done" /\ op[p] = "stepto" /\ result[p] = NO_STEPS_AVAILABLE
        /\ Pending(final[p])
        /\ \E k \in DirectDeps(final[p]) : is_locked(k)

BlockedByStale(p) ==
    \A t \in killed :
        Stale(t) =>
            /\ ~is_done(final[p])
            /\ final[p] = t \/ t \in AllDeps(final[p])
            /\ pc[p] = "done" => result[p] = NO_STEPS_AVAILABLE

Recovered(p) ==
    /\ final[p] /= None
    /\ crashes = MaxCrashes
    /\ \A t \in DOMAIN dependency_graph : ~Stale(t)

C11_NoStaleMarker ==
    crashes = 0 =>
        \A t \in Ids :
            is_locked(t) => \E p \in Procs : HoldsLock(p) /\ cur[p] = t

\* a marker written by a second builder of the target after the first one
\* has unlocked and returned
C11_Witness ==
    /\ crashes = 0
    /\ \E p, q \in Procs :
          /\ p /= q /\ cur[p] = cur[q]
          /\ pc[p] = "run" /\ is_locked(cur[p])
          /\ pc[q] = "done" /\ invoked[q]

\* C12: add_invocation for an identifier that already has a declaration,
\* also one with an empty dependency list, raises, and raises in no other
\* case; after it has raised, all_invocations, invocation_idx and
\* dependency_graph are what they were before the call.
C12_DuplicateRejected ==
    decl.called =>
        /\ decl.raised <=> decl.target \in DOMAIN decl.before[2]
        /\ decl.raised =>
              <<all_invocations, invocation_idx, dependency_graph>> = decl.before

\* a second declaration of a target declared without dependencies, made
\* through a descriptor that is another object with the same string form
C12_Witness ==
    /\ decl.called /\ decl.raised
    /\ decl.before[3][decl.target] = <<>>
    /\ decl.target = str(ObjC0) /\ all_invocations[invocation_idx[decl.target] + 1].obj = ObjC
    /\ <<all_invocations, invocation_idx, dependency_graph>> = decl.before

\* the arguments and named-argument values of the producer given to the
\* last add_invocation call
ArgValues(computation) ==
    IF computation.kind /= "comp" THEN {computation}
    ELSE LET vals(opt) == IF opt = <<>> THEN {} ELSE {opt[1][i] : i \in 1..Len(opt[1])}
         IN  vals(computation.args) \cup vals(computation.kwargs)

\* the identifiers that occur in a value directly or inside lists and tuples
RECURSIVE TargetsIn(_)
TargetsIn(v) ==
    CASE v.kind = "obj" -> {str(v.obj)}
      [] v.kind \in {"list", "tuple"} -> UNION {TargetsIn(v.items[i]) : i \in 1..Len(v.items)}
      [] OTHER -> {}

\* the identifiers that occur in a value at any nesting depth
RECURSIVE TargetsAnywhere(_)
TargetsAnywhere(v) ==
    CASE v.kind = "obj" -> {str(v.obj)}
      [] v.kind \in {"list", "tuple", "dict"} ->
             UNION {TargetsAnywhere(v.items[i]) : i \in 1..Len(v.items)}
      [] OTHER -> {}

\* the dependency set stored by the last add_invocation call
Derived == {dependency_graph[decl.target][i] : i \in 1..Len(dependency_graph[decl.target])}

Declared == decl.called /\ ~decl.raised

\* f(A, [B, C], "a", k = D)
Example ==
    Call(<<"f">>, <<Obj(ObjA), List(<<Obj(ObjB), Obj(ObjC)>>), Lit(<<"a">>)>>, <<Obj(ObjD)>>)

\* C13 as stated: the dependencies derived at declaration are exactly the
\* target identifiers occurring at any nesting depth among the arguments and
\* named-argument values.
C13_AnyNestingDepth ==
    Declared =>
        Derived = UNION {TargetsAnywhere(v) : v \in ArgValues(decl.computation)}

\* C13 as amended: for f(A, [B, C], "literal", k = D) the derived set is
\* {A, B, C, D}; in general the derived dependencies are exactly the target
\* identifiers occurring among the arguments and named-argument values
\* directly or inside lists and tuples nested to any depth.
C13_ListsAndTuples ==
    Declared =>
        /\ decl.computation = Example => Derived = {A, B, C, D}
        /\ Derived = UNION {TargetsIn(v) : v \in ArgValues(decl.computation)}

\* the example has been declared, and so has an invocation with a mapping
\* among its arguments, whose target is not among the dependencies
C13_Witness ==
    /\ Declared /\ decl.computation = Example /\ Derived = {A, B, C, D}
    /\ \E i \in 1..Len(all_invocations) :
          /\ \E v \in ArgValues(all_invocations[i].comp) : v.kind = "dict"
          /\ B \notin {dependency_graph[str(all_invocations[i].obj)][k] :
                         k \in 1..Len(dependency_graph[str(all_invocations[i].obj)])}

\* the stream given to save_makefile
Written == IF out.given = "stdout" THEN out.stdout ELSE out.file

TargetAt(i) == CHOOSE t \in DOMAIN invocation_idx : invocation_idx[t] = i

ExpectedGoal ==
    IF main_target = <<>> THEN <<>>
    ELSE << target_filename(str(main_target[1])) \o <<":">> >>

RECURSIVE ExpectedRules(_)
ExpectedRules(i) ==
    IF i >= Len(all_invocations) THEN <<>>
    ELSE LET t == TargetAt(i)
             pre == [k \in 1..Len(dependency_graph[t]) |->
                        target_filename(dependency_graph[t][k])]
         IN  << target_filename(t) \o <<":", " ">> \o join(pre),
                <<"\t">> \o compute_command \o <<" ", "\"">> \o t \o <<"\"">> >>
                 \o ExpectedRules(i + 1)

\* C15: save_makefile writes to the given stream the goal rule of the main
\* target, when one is set, and then for every declared target in declaration
\* order its rule (artifact path, the artifact paths of its dependencies) and
\* one recipe line with the quoted identifier.
C15_ExportToStream ==
    out.called => Written = ExpectedGoal \o ExpectedRules(0)

\* C14: unlock_target on a target without lock marker and remove_target on
\* a target without artifact raise nothing and leave every file as it was;
\* unlock_target removes nothing but the marker and remove_target nothing but
\* the artifact, so that the operation applied again right after itself
\* raises nothing and changes nothing.
C14_Idempotent ==
    \A p \in SoloProcs :
        (pc[p] = "done" /\ op[p] \in {"unlock", "remove"}) =>
            LET path == IF op[p] = "unlock" THEN lock_filename(cur[p])
                        ELSE target_filename(cur[p])
            IN  /\ ~raised[p]
                /\ files = obs.before \ {path}
                /\ path \notin obs.before => files = obs.before
                /\ obs.again => files = obs.before

\* unlock_target has returned from its second call in a row on a target whose
\* artifact exists
C14_Witness ==
    \E p \in SoloProcs :
        /\ pc[p] = "done" /\ op[p] = "unlock" /\ obs.again /\ ~raised[p]
        /\ exists(target_filename(cur[p])) /\ files = obs.before

\* C16: with concurrent drivers and a Runner that always succeeds, the Runner
\* is never invoked for a target that is done when it is invoked, and no
\* target is inside the Runner while a target that depends on it is inside
\* the Runner.
C16_NoDuplicateWork ==
    /\ [][\A p \in Procs :
            (pc[p] /= "run" /\ pc'[p] = "run") => ~is_done(cur[p])]_vars
    /\ [](\A p, q \in Procs :
            (pc[p] = "run" /\ pc[q] = "run") => cur[p] \notin DirectDeps(cur[q]))

\* a direct call find_next_step_to(T) has returned, T being declared and not
\* locked
DeclaredCall(p) ==
    /\ FindCall(p)
    /\ final[p] \in DOMAIN dependency_graph
    /\ ~is_locked(final[p])

\* T has the dependencies [k1, k2], k1 is locked and k2 is pending and
\* declared without dependencies
LockedThenPending(T) ==
    /\ Len(dependency_graph[T]) = 2
    /\ is_locked(dependency_graph[T][1])
    /\ LET k2 == dependency_graph[T][2] IN
         /\ Pending(k2)
         /\ k2 \in DOMAIN dependency_graph /\ dependency_graph[k2] = <<>>

\* C17 as stated: when the first of the dependencies of T is locked,
\* find_next_step_to(T) returns no step, whatever the dependencies after it
\* are; for C depending on [A, B] with A locked and B pending without
\* dependencies it returns no step.
C17_LockBlocksSiblings ==
    \A p \in SoloProcs :
        (DeclaredCall(p) /\ dependency_graph[final[p]] /= <<>>
           /\ is_locked(dependency_graph[final[p]][1])) => ret[p] = None

\* C17 as amended: a locked dependency is not searched and keeps T itself
\* from being returned, but the dependencies after it are searched: for C
\* depending on [A, B] with A locked and B pending without dependencies
\* find_next_step_to(C) returns B; in general, when a dependency of T is
\* locked, the call returns no step or a step found at or under a dependency
\* of T that is neither locked nor done.
C17_LockedDepIsSkipped ==
    \A p \in SoloProcs :
        DeclaredCall(p) =>
            LET T == final[p] IN
            /\ LockedThenPending(T) => ret[p] = dependency_graph[T][2]
            /\ (\E k \in DirectDeps(T) : is_locked(k)) =>
                  /\ ret[p] /= T
                  /\ ret[p] /= None =>
                        \E k \in DirectDeps(T) :
                            /\ ~is_locked(k) /\ ~is_done(k)
                            /\ ret[p] \in {k} \cup AllDeps(k)

\* the resolver has returned B for C, which depends on [A, B], with A locked
C17_Witness ==
    \E p \in SoloProcs :
        /\ DeclaredCall(p) /\ final[p] = C
        /\ dependency_graph[C] = <<A, B>> /\ LockedThenPending(C)
        /\ ret[p] = B

\* no declared target depends on itself, directly or through other targets
Acyclic == \A t \in DOMAIN dependency_graph : t \notin AllDeps(t)

\* the targets of the dependency cycles through T, T included
CycleOf(T) == {T} \cup {k \in AllDeps(T) : T \in AllDeps(k)}

\* T lies on a cycle no target of which is locked or done
LiveCycle(T) ==
    /\ T \in DOMAIN dependency_graph /\ T \in AllDeps(T)
    /\ \A k \in CycleOf(T) : ~is_locked(k) /\ ~is_done(k)

\* moreover the targets of the cycle depend on nothing outside it
ClosedLiveCycle(T) ==
    /\ LiveCycle(T)
    /\ AllDeps(T) \subseteq CycleOf(T)

Resolving(p) == op[p] = "find" /\ pc[p] \in {"fn", "fn_ret", "done"}

\* C18: on an acyclic graph, with any files, a target returned by
\* find_next_step_to(T) is declared, is not locked and has all its
\* dependencies done; when T is not done it is pending.
C18_ResolverSound ==
    \A p \in SoloProcs :
        (FindCall(p) /\ Acyclic /\ ret[p] /= None) =>
            /\ target_exists(ret[p]) /\ ret[p] \in DOMAIN dependency_graph
            /\ ~is_locked(ret[p])
            /\ \A k \in DirectDeps(ret[p]) : is_done(k)
            /\ ~is_done(final[p]) => Pending(ret[p])

\* the resolver has returned a pending target with a done dependency: the
\* second dependency of T, the first one being done
C18_Witness ==
    \E p \in SoloProcs :
        /\ FindCall(p) /\ Acyclic /\ ret[p] /= None /\ ret[p] /= final[p]
        /\ Len(dependency_graph[final[p]]) = 2
        /\ is_done(dependency_graph[final[p]][1])
        /\ ret[p] = dependency_graph[final[p]][2]
        /\ Pending(ret[p])
        /\ \E k \in DirectDeps(ret[p]) : is_done(k)

\* C20 as stated: find_next_step_to returns on every acyclic graph, and on
\* a target of a cycle without locked or done target it never returns.
C20_CycleNeverReturns ==
    \A p \in SoloProcs :
        /\ (pc[p] = "fn" /\ Acyclic) ~> (pc[p] = "done")
        /\ []((Resolving(p) /\ LiveCycle(final[p])) => pc[p] = "fn")

\* C20 as amended: find_next_step_to returns on every acyclic graph; on a
\* target of a cycle without locked or done target, whose targets depend on
\* nothing outside the cycle, it never returns and the recursion goes as deep
\* as it is followed.
C20_ClosedCycleNeverReturns ==
    \A p \in SoloProcs :
        /\ (pc[p] = "fn" /\ Acyclic) ~> (pc[p] = "done")
        /\ []((Resolving(p) /\ ClosedLiveCycle(final[p])) => pc[p] = "fn")
        /\ (Resolving(p) /\ ClosedLiveCycle(final[p])) ~> (Len(stack[p]) = MaxDepth)

\* the recursion has come back to the target it started from and goes on
C20_Witness ==
    \E p \in SoloProcs :
        /\ Resolving(p) /\ ClosedLiveCycle(final[p])
        /\ Len(stack[p]) = MaxDepth
        /\ \E i \in 2..Len(stack[p]) : stack[p][i].t = final[p]

\* the targets the driver has to build for T from the files it started
\* with: T when it is not done, and the dependencies that are not done of
\* the targets it has to build
RECURSIVE NeededWithin(_, _)
NeededWithin(t, n) ==
    IF target_filename(t) \in obs.start THEN {}
    ELSE {t} \cup (IF n = 0 THEN {}
                   ELSE UNION {NeededWithin(k, n - 1) : k \in DirectDeps(t)})

Needed(T) == NeededWithin(T, Cardinality(Ids))

\* the targets reachable from T that were not done when the driver started
NotDoneAtStart(T) == {t \in {T} \cup AllDeps(T) : target_filename(t) \notin obs.start}

Driving(p) == op[p] = "stepto" /\ final[p] \in DOMAIN dependency_graph

Returned(p) == Driving(p) /\ pc[p] = "done"

\* what C19 says of the calls: they return STEP_RUN_OK, after the Runner was
\* invoked for one target, which was not done and now is, or TARGET_READY,
\* when T is done; a target is inside the Runner only when all its
\* dependencies are done; no target is built twice
DriveSteps(p) ==
    /\ Returned(p) =>
          /\ result[p] \in {STEP_RUN_OK, TARGET_READY}
          /\ result[p] = STEP_RUN_OK <=> invoked[p]
          /\ result[p] = TARGET_READY => (is_done(final[p]) /\ files = obs.before)
          /\ result[p] = STEP_RUN_OK =>
                /\ is_done(cur[p]) /\ target_filename(cur[p]) \notin obs.before
                /\ files = obs.before \cup {target_filename(cur[p])}
    /\ (Driving(p) /\ pc[p] = "run") =>
          \A k \in DirectDeps(cur[p]) : exists(target_filename(k)) /\ ~is_locked(k)
    /\ \A t \in Ids : obs.built[t] <= 1

Ready(p) == Returned(p) /\ result[p] = TARGET_READY

\* C19 as stated: the driver eventually gets TARGET_READY, until then every
\* call returns STEP_RUN_OK after invoking the Runner for one target, a target
\* is built only after its dependencies are done, and each target reachable
\* from T that was not done is built exactly once.
C19_AllNotDoneBuilt ==
    \A p \in DriverProcs :
        /\ Driving(p) ~> Ready(p)
        /\ []DriveSteps(p)
        /\ [](Ready(p) => \A t \in NotDoneAtStart(final[p]) : obs.built[t] = 1)

\* C19 as amended: as stated, but the targets built exactly once are T, when
\* it is not done, and the not-done dependencies of the targets that are
\* built; no other target is built, so that a target that is not done stays
\* so when a done target lies between it and T.
C19_NeededBuiltOnce ==
    \A p \in DriverProcs :
        /\ Driving(p) ~> Ready(p)
        /\ []DriveSteps(p)
        /\ [](Ready(p) =>
                \A t \in Ids : obs.built[t] = IF t \in Needed(final[p]) THEN 1 ELSE 0)

\* the driver has got TARGET_READY after building T, whose dependency was
\* done; the pending dependency of that dependency has not been built
C19_Witness ==
    \E p \in DriverProcs :
        /\ Ready(p) /\ obs.built[final[p]] = 1
        /\ \E k \in DirectDeps(final[p]) :
              /\ target_filename(k) \in obs.start
              /\ \E t \in DirectDeps(k) : obs.built[t] = 0 /\ ~is_done(t)

\* the step find_next_step_to(t) is to give on the files as they are, by the
\* rule "first dependency that yields a candidate wins": no step for a target
\* that is locked or undeclared; otherwise the step of the first dependency,
\* in declared order, that is neither locked nor done and has a step; when
\* there is none, t itself if all its dependencies are done
RECURSIVE StepWithin(_, _)
StepWithin(t, n) ==
    IF is_locked(t) \/ t \notin DOMAIN dependency_graph THEN None
    ELSE LET deps == dependency_graph[t]
             yields(i) == /\ n > 0
                          /\ ~is_locked(deps[i]) /\ ~is_done(deps[i])
                          /\ StepWithin(deps[i], n - 1) /= None
             first == {i \in 1..Len(deps) : yields(i) /\ \A j \in 1..(i - 1) : ~yields(j)}
         IN  IF first /= {}
             THEN StepWithin(deps[CHOOSE i \in first : TRUE], n - 1)
             ELSE IF \A i \in 1..Len(deps) : is_done(deps[i]) THEN t ELSE None

StepOf(t) == StepWithin(t, Cardinality(Ids))

\* dependency k of a target is searched and gives a candidate
Yields(k) == ~is_locked(k) /\ ~is_done(k) /\ StepOf(k) /= None

\* C21: on an acyclic graph find_next_step_to(T) returns the candidate found
\* under the first dependency, in declared order, whose search gives one
\* (depth-first at every level), and a call on the same target with the same
\* graph and the same files returns what the call before it returned.
C21_LeftmostDeterministic ==
    \A p \in SoloProcs :
        (FindCall(p) /\ Acyclic) =>
            /\ ret[p] = StepOf(final[p])
            /\ obs.prev /= <<>> => ret[p] = obs.prev[1]
            /\ DeclaredCall(p) =>
                  LET deps == dependency_graph[final[p]] IN
                  \A i \in 1..Len(deps) :
                      (Yields(deps[i]) /\ \A j \in 1..(i - 1) : ~Yields(deps[j]))
                          => ret[p] = StepOf(deps[i])

\* both dependencies of T give a candidate, not the same one; the second of
\* two calls has returned the candidate of the first dependency, as the first
\* call did
C21_Witness ==
    \E p \in SoloProcs :
        /\ FindCall(p) /\ Acyclic /\ DeclaredCall(p)
        /\ LET deps == dependency_graph[final[p]] IN
             /\ Len(deps) = 2 /\ Yields(deps[1]) /\ Yields(deps[2])
             /\ StepOf(deps[1]) /= StepOf(deps[2])
             /\ ret[p] = StepOf(deps[1])
        /\ obs.prev = <<ret[p]>>

\* d has no declaration: nothing says how to build it
Undeclared(d) == d \notin DOMAIN dependency_graph

\* d is an undeclared target without artifact
MissingInput(d) == Undeclared(d) /\ ~exists(target_filename(d))

\* C22 as stated: find_next_step_to on an undeclared target returns no step;
\* a target returned has no undeclared dependency that is locked or lacks its
\* artifact, and depends neither directly nor transitively on an undeclared
\* target whose artifact is absent.
C22_NeverAboveMissingInput ==
    \A p \in SoloProcs :
        FindCall(p) =>
            /\ Undeclared(final[p]) => ret[p] = None
            /\ ret[p] /= None =>
                  /\ ~Undeclared(ret[p])
                  /\ \A d \in DirectDeps(ret[p]) :
                        Undeclared(d) => (exists(target_filename(d)) /\ ~is_locked(d))
                  /\ \A d \in AllDeps(ret[p]) : ~MissingInput(d)

\* C22 as amended: as stated for the target itself and for the targets that
\* depend on d directly; a target that depends on d through other targets is
\* not returned as long as one of its own dependencies is not done, and it is
\* returned, d being absent, when its own dependencies are all done.  On an
\* acyclic graph with nothing locked, no step is returned only when an
\* undeclared target without artifact lies under T.
C22_ExternalInputs ==
    \A p \in SoloProcs :
        FindCall(p) =>
            /\ Undeclared(final[p]) => ret[p] = None
            /\ ret[p] /= None =>
                  /\ ~Undeclared(ret[p])
                  /\ \A d \in DirectDeps(ret[p]) :
                        Undeclared(d) => (exists(target_filename(d)) /\ ~is_locked(d))
                  /\ \A d \in DirectDeps(ret[p]) : ~MissingInput(d) /\ is_done(d)
            /\ (DeclaredCall(p) /\ Acyclic /\ ret[p] = None
                   /\ \A k \in {final[p]} \cup AllDeps(final[p]) : ~is_locked(k)) =>
                      \E d \in AllDeps(final[p]) : MissingInput(d)

\* the resolver has returned C, which depends on B, whose artifact exists; B
\* depends on A, which is undeclared and has no artifact
C22_Witness ==
    \E p \in SoloProcs :
        /\ FindCall(p) /\ final[p] = C /\ ret[p] = C
        /\ dependency_graph[C] = <<B>> /\ is_done(B)
        /\ B \in DOMAIN dependency_graph /\ dependency_graph[B] = <<A>>
        /\ MissingInput(A) /\ ~is_locked(A)

\* C23: ComputationRunner's compute_target returns what the interface's
\* returns, True, and compute_target(scheme, SYSTEM_RUNNER, t) on a declared
\* target that is not locked returns STEP_RUN_OK and leaves the artifact of t
\* as it was.
C23_DefaultRunnerSucceeds ==
    \A p \in SoloProcs :
        (pc[p] = "done" /\ op[p] = "compute" /\ target_exists(cur[p])
           /\ lock_filename(cur[p]) \notin obs.before) =>
              /\ invoked[p]
              /\ SYSTEM_RUNNER = ComputationRunnerInterface_compute_target
              /\ obs.outcome = "true"
              /\ result[p] = STEP_RUN_OK
              /\ target_filename(cur[p]) \in obs.before => exists(target_filename(cur[p]))

\* a dry-run call is under way or has returned
Viewing(p) == op[p] \in {"viewcompute", "viewstepto"}

\* C24: no step of view_compute_target or view_step_to_target, the Runner's
\* describe_compute_target included, invokes the Runner's compute_target,
\* creates or removes a file, or changes a declared invocation (its arguments
\* and named arguments) or a dependency list.
C24_ViewsReadOnly ==
    [][\A p \in SoloProcs :
           (Viewing(p) /\ ~Callable(p)) =>
               /\ ~invoked'[p] /\ pc'[p] /= "run"
               /\ files' = files
               /\ dependency_graph' = dependency_graph
               /\ all_invocations' = all_invocations]_vars

\* the artifact path and the lock-marker path derived for t
PathsOf(t) == {target_filename(t), lock_filename(t)}

\* C25: the paths derived for two different identifiers never coincide, and
\* no step of lock_target, unlock_target, remove_target or of a build
\* (compute_target with its Runner) on target t changes is_locked(u) or
\* is_done(u) of another target u, also when u is t followed by '.locked'.
C25_TargetsIsolated ==
    [][\A p \in SoloProcs :
           ~Callable(p) =>
               \A u \in PathIds \ {cur[p]} :
                   /\ is_locked(u)' = is_locked(u)
                   /\ is_done(u)' = is_done(u)
                   /\ files' /= files => PathsOf(cur[p]) \cap PathsOf(u) = {}]_vars

====
